---- MODULE Spec2Model ----
(***************************************************************************)
(* Model of the Vercel MCP server (src/mcp_vercel_server.py): the module   *)
(* level credential VERCEL_TOKEN, the tool functions, tool discovery and   *)
(* the HTTP handler MCPHTTPHandler.  The server is an http.server          *)
(* HTTPServer run by one serve_forever thread, so every request is handled *)
(* to completion before the next one: one action per do_* method.          *)
(* ServeSpec is the same server statement by statement, with several       *)
(* connections open at once; ClientSpec is the menu loop of the terminal   *)
(* client (src/mcp_vercel_client.py).                                      *)
(***************************************************************************)
EXTENDS Integers, Sequences, FiniteSets, TLC

VARIABLES
    VERCEL_TOKEN,   \* the module-level credential (line 29, rebound at line 295)
    fastmcpAttr,    \* whether the imported FastMCP class has an attribute named *mcp*
    request,        \* the request the handler last ran on
    responses,      \* the HTTP responses written for that request
    outbound,       \* the requests.get calls made while handling it
    log,            \* the lines printed while handling it
    invoked,        \* the callables called by do_POST while handling it
    upstream,       \* what the world outside answered while handling it
    escaped,        \* whether an exception left the do_* method
    conns,          \* the client connections, each with how far its request has come
    held,           \* the values VERCEL_TOKEN has been bound to (recorded by ServeSpec)
    client          \* the terminal client: where main() is and what its last choice did

vars == <<VERCEL_TOKEN, fastmcpAttr, request, responses, outbound, log, invoked,
          upstream, escaped, conns, held, client>>

----------------------------------------------------------------------------
(* Bounds of the model *)

MaxTokenLen == 9       \* longest string token drawn besides ExampleToken
MaxArrLen == 9         \* longest array drawn as a JSON value
MaxConns == 2          \* client connections open at the same time

(* Program constants *)

MaskKeep == 4          \* token[:4] and token[-4:]
MaskThreshold == 8     \* len(token) > 8

----------------------------------------------------------------------------
(* JSON values.  A value is [kind, items]: a string is the sequence of its  *)
(* characters, a number the sequence of its decimal digits, an array the   *)
(* sequence of its (string) elements; null has no items.                   *)

Alphabet == <<"a","b","c","d","1","2","3","4","e","f","g","h","i","j","k","l">>

JStr(cs) == [kind |-> "str", items |-> cs]
JNum(ds) == [kind |-> "num", items |-> ds]
JArr(xs) == [kind |-> "arr", items |-> xs]
JNull == [kind |-> "null", items |-> <<>>]

StrOfLen(n) == JStr(SubSeq(Alphabet, 1, n))
ArrOfLen(n) == JArr([i \in 1..n |-> "0"])

\* the token of the specification's example, "abcd1234efgh"
ExampleToken == JStr(<<"a","b","c","d","1","2","3","4","e","f","g","h">>)

TokenLens == {0, MaskThreshold, MaxTokenLen}
StringTokens == {StrOfLen(n) : n \in TokenLens} \cup {ExampleToken}
OtherTokens == {JNum(<<"1","2","3","4","5">>), JNull, ArrOfLen(0), ArrOfLen(MaxArrLen)}
TokenValues == StringTokens \cup OtherTokens

\* Python truthiness: bool(v)
Truthy(v) ==
    CASE v.kind = "str" -> Len(v.items) > 0
      [] v.kind = "arr" -> Len(v.items) > 0
      [] v.kind = "num" -> v.items # <<"0">>
      [] OTHER -> FALSE

RECURSIVE JoinItems(_)
JoinItems(xs) ==
    IF Len(xs) = 0 THEN <<>>
    ELSE IF Len(xs) = 1 THEN <<xs[1]>>
    ELSE <<xs[1], ",", " ">> \o JoinItems(Tail(xs))

\* str(v), as an f-string formats it
StrOf(v) ==
    CASE v.kind = "str" -> v.items
      [] v.kind = "num" -> v.items
      [] v.kind = "arr" -> <<"[">> \o JoinItems(v.items) \o <<"]">>
      [] OTHER -> <<"N","o","n","e">>

\* repr(v), as the repr of a dict formats its values
ReprOf(v) ==
    IF v.kind = "str" THEN <<"'">> \o v.items \o <<"'">> ELSE StrOf(v)

\* whether the characters t occur contiguously in cs
Contains(cs, t) ==
    \E i \in 0..(Len(cs) - Len(t)) : SubSeq(cs, i + 1, i + Len(t)) = t

Timestamp == "datetime.now().isoformat()"

----------------------------------------------------------------------------
(* The upstream API, as requests.get sees it: the call fails in the        *)
(* network (an exception), or a response arrives with a status code and a  *)
(* body text.  NoEnv stands for "nothing outside the process was asked".   *)

StatusLo == 200        \* response.status_code >= 200
StatusHi == 300        \* response.status_code < 300

UpstreamStatuses == {StatusLo - 1, StatusLo, StatusHi - 1, StatusHi, 404}
UpstreamTexts == {"{\"x\": 1}", "not found"}

NoEnv == [kind |-> "none", status |-> 0, text |-> ""]
UpstreamOutcomes ==
    {[kind |-> "netfail", status |-> 0, text |-> ""]}
    \cup {[kind |-> "response", status |-> s, text |-> b] :
            s \in UpstreamStatuses, b \in UpstreamTexts}
\* subprocess.run(["vercel", "--version"]): its return code, or it raises
CliOutcomes ==
    {[kind |-> "cli", status |-> 0, text |-> "41.0.0"],
     [kind |-> "cli", status |-> 1, text |-> ""],
     [kind |-> "cliraise", status |-> 0, text |-> ""]}

\* response.json(): the texts that parse, and what they parse to
IsJsonText(b) == b \in {"{\"x\": 1}"}
JsonOf(b) == [x |-> 1]

\* one requests.get call
GetCall(endpoint, arg, query, tok) ==
    [endpoint |-> endpoint, arg |-> arg, query |-> query,
     auth |-> [scheme |-> "Bearer", token |-> StrOf(tok)]]

\* a JSON array as a response body
JsonArray(xs) == [array |-> xs]

Line(fmt, name, args) == [fmt |-> fmt, name |-> name, args |-> args]

ErrorEnvelopeBare(text, detail) == [status |-> "error", message |-> <<text, detail>>]
ErrorEnvelope(text, detail) ==
    [status |-> "error", message |-> <<text, detail>>, timestamp |-> Timestamp]

\* what a tool function returns to do_POST
Returned(result, tok, calls, lines) ==
    [raised |-> FALSE, exc |-> "", result |-> result, token |-> tok,
     calls |-> calls, lines |-> lines]
Raised(exc, tok, calls, lines) ==
    [raised |-> TRUE, exc |-> exc, result |-> <<>>, token |-> tok,
     calls |-> calls, lines |-> lines]

\* the status code falls in [200, 300)
IsSuccessStatusOutside(s) == s > StatusLo /\ s =< StatusHi
IsSuccessStatus(s) == s >= StatusLo /\ s < StatusHi

\* "Process the response" and the enclosing except clause, the same in
\* run_vercel_command and in each tool that calls requests.get itself
ProcessResponse(up, tok, call, lines) ==
    IF up.kind # "response"
    THEN Returned(ErrorEnvelope("Error: ", "ConnectionError"), tok, <<call>>,
                  lines \o <<Line("Error calling Vercel API: {}", "ConnectionError", <<>>)>>)
    ELSE IF IsSuccessStatus(up.status)
    THEN IF IsJsonText(up.text)
         THEN Returned([status |-> "success", data |-> JsonOf(up.text),
                        timestamp |-> Timestamp], tok, <<call>>, lines)
         ELSE Returned(ErrorEnvelope("Error: ", "JSONDecodeError"), tok, <<call>>,
                       lines \o <<Line("Error calling Vercel API: {}", "JSONDecodeError", <<>>)>>)
    ELSE Returned([status |-> "error",
                   message |-> <<"API request failed with status code ", ToString(up.status)>>,
                   error |-> up.text, timestamp |-> Timestamp],
                  tok, <<call>>, lines)

EmptyMap == [k \in {} |-> JNull]

\* the "Validate Vercel token" guard: if not VERCEL_TOKEN
TokenMissingNever(tok) == FALSE
TokenMissing(tok) == ~Truthy(tok)

NotConfigured(tok, lines) ==
    Returned(ErrorEnvelope("Vercel token not configured. ",
                           "Please set the VERCEL_TOKEN environment variable."),
             tok, <<>>, lines)

\* the position of "--limit" in the list, 0 when it is not there
RECURSIVE IndexOf(_, _, _)
IndexOf(xs, x, i) ==
    IF i > Len(xs) THEN 0 ELSE IF xs[i] = x THEN i ELSE IndexOf(xs, x, i + 1)

Query(keys, vals) == [k \in keys |-> vals[k]]

\* run_vercel_command(command_args): the try block's lookups raise (and the
\* except clause answers) when command_args has no element 0
run_vercel_command(command_args, tok, up, lines) ==
    LET xs == command_args.items
        n == Len(xs)
        oops(e) == Returned(ErrorEnvelope("Error: ", e), tok, <<>>,
                            lines \o <<Line("Error calling Vercel API: {}", e, <<>>)>>)
        unsupported == Returned(ErrorEnvelope("Unsupported command: ", "command_args"),
                                tok, <<>>, lines)
    IN  IF command_args.kind \in {"num", "null"} THEN oops("TypeError")
        ELSE IF n = 0 THEN oops("IndexError")
        ELSE IF command_args.kind = "str" THEN unsupported
        ELSE IF xs[1] = "ls" \/ (n >= 2 /\ xs[1] = "project" /\ xs[2] = "ls")
        THEN ProcessResponse(up, tok, GetCall("/v9/projects", <<>>, EmptyMap, tok), lines)
        ELSE IF xs[1] = "list"
        THEN LET hasName == n > 1 /\ xs[2] # "--limit"
                 li == IndexOf(xs, "--limit", 1)
                 hasLimit == li > 0 /\ li < n
                 vals == [k \in {"name", "limit"} |->
                            IF k = "name" THEN <<xs[IF hasName THEN 2 ELSE 1]>>
                            ELSE <<xs[IF hasLimit THEN li + 1 ELSE 1]>>]
                 keys == (IF hasName THEN {"name"} ELSE {})
                           \cup (IF hasLimit THEN {"limit"} ELSE {})
             IN  ProcessResponse(up, tok,
                     GetCall("/v6/deployments", <<>>, Query(keys, vals), tok), lines)
        ELSE unsupported

ToolCall(name, args) == <<Line("Tool call: {}", name, args)>>

list_projects(tok, up) ==
    IF TokenMissing(tok) THEN NotConfigured(tok, ToolCall("list_projects", <<>>))
    ELSE run_vercel_command(JArr(<<"ls">>), tok, up, ToolCall("list_projects", <<>>))

list_deployments_twice(project_id, limit, tok, up) ==
    LET r == list_projects(tok, up) IN [r EXCEPT !.calls = r.calls \o r.calls]
list_deployments(project_id, limit, tok, up) ==
    LET lines == ToolCall("list_deployments", <<StrOf(project_id)>>)
        vals == [k \in {"projectId", "limit"} |->
                    IF k = "projectId" THEN StrOf(project_id) ELSE StrOf(limit)]
        keys == (IF Truthy(project_id) THEN {"projectId"} ELSE {})
                  \cup (IF Truthy(limit) THEN {"limit"} ELSE {})
    IN  IF TokenMissing(tok) THEN NotConfigured(tok, lines)
        ELSE ProcessResponse(up, tok,
                 GetCall("/v6/deployments", <<>>, Query(keys, vals), tok), lines)

get_project_info(project_id, tok, up) ==
    IF TokenMissing(tok) THEN NotConfigured(tok, ToolCall("get_project_info", <<>>))
    ELSE ProcessResponse(up, tok,
             GetCall("/v9/projects/{}", StrOf(project_id), EmptyMap, tok),
             ToolCall("get_project_info", <<>>))

list_project_domains(project_id, tok, up) ==
    IF TokenMissing(tok) THEN NotConfigured(tok, ToolCall("list_project_domains", <<>>))
    ELSE ProcessResponse(up, tok,
             GetCall("/v9/projects/{}/domains", StrOf(project_id), EmptyMap, tok),
             ToolCall("list_project_domains", <<>>))

list_environment_variables(project_id, tok, up) ==
    IF TokenMissing(tok)
    THEN NotConfigured(tok, ToolCall("list_environment_variables", <<>>))
    ELSE ProcessResponse(up, tok,
             GetCall("/v9/projects/{}/env", StrOf(project_id), EmptyMap, tok),
             ToolCall("list_environment_variables", <<>>))

get_user_info(tok, up) ==
    IF TokenMissing(tok) THEN NotConfigured(tok, ToolCall("get_user_info", <<>>))
    ELSE ProcessResponse(up, tok, GetCall("/v2/user", <<>>, EmptyMap, tok),
                         ToolCall("get_user_info", <<>>))

list_deployment_aliases(deployment_id, tok, up) ==
    IF TokenMissing(tok)
    THEN NotConfigured(tok, ToolCall("list_deployment_aliases", <<>>))
    ELSE ProcessResponse(up, tok,
             GetCall("/v2/deployments/{}/aliases", StrOf(deployment_id), EmptyMap, tok),
             ToolCall("list_deployment_aliases", <<>>))

\* masked_token = token[:4] + "****" + token[-4:] if len(token) > 8 else "****"
Stars == <<"*", "*", "*", "*">>
MaskedWhole(cs) == cs
Masked(cs) ==
    IF Len(cs) > MaskThreshold
    THEN SubSeq(cs, 1, MaskKeep) \o Stars \o SubSeq(cs, Len(cs) - MaskKeep + 1, Len(cs))
    ELSE Stars

\* set_vercel_token(token): "global VERCEL_TOKEN" and the assignment come
\* first, so the credential is token however the function ends; len() raises
\* on a value without a length, and list + str raises on a long array
set_vercel_token_local(token, tok) ==
    Returned([status |-> "success", message |-> <<"Vercel token updated successfully">>,
              timestamp |-> Timestamp], tok, <<>>, <<>>)
set_vercel_token(token, tok) ==
    LET lines == ToolCall("set_vercel_token", <<>>)
    IN  IF token.kind \notin {"str", "arr"} THEN Raised("TypeError", token, <<>>, lines)
        ELSE IF token.kind = "arr" /\ Len(token.items) > MaskThreshold
        THEN Raised("TypeError", token, <<>>, lines)
        ELSE Returned([status |-> "success",
                       message |-> <<"Vercel token updated successfully">>,
                       timestamp |-> Timestamp],
                      token, <<>>,
                      lines \o <<Line("Vercel token updated: {}", "",
                                      <<IF token.kind = "str" THEN Masked(token.items)
                                        ELSE Stars>>)>>)

check_server_status(tok, cli) ==
    LET installed == cli.kind = "cli" /\ cli.status = 0
    IN  Returned([status |-> "online",
                  server_name |-> "MCP Vercel CLI Server",
                  version |-> "1.0.0",
                  vercel_cli_installed |-> installed,
                  vercel_cli_version |-> IF installed THEN cli.text ELSE "Not installed",
                  vercel_token_configured |-> Truthy(tok),
                  pid |-> "os.getpid()",
                  timestamp |-> Timestamp],
                 tok, <<>>, ToolCall("check_server_status", <<>>))

----------------------------------------------------------------------------
(* The module namespace, globals(), in definition order: what do_POST and  *)
(* get_registered_tools look names up in.                                  *)

known_tools ==
    <<"list_projects", "list_deployments", "get_project_info",
      "check_server_status", "set_vercel_token", "list_project_domains",
      "list_environment_variables", "get_user_info", "list_deployment_aliases">>

GlobalNames ==
    <<"os", "json", "HTTPServer", "BaseHTTPRequestHandler", "FastMCP", "requests",
      "mcp", "HOST", "PORT", "VERCEL_TOKEN",
      "get_registered_tools", "run_vercel_command",
      "list_projects", "list_deployments", "get_project_info", "set_vercel_token",
      "check_server_status", "list_project_domains", "list_environment_variables",
      "get_user_info", "list_deployment_aliases",
      "MCPHTTPHandler", "check_port_in_use", "main">>

Range(f) == {f[i] : i \in DOMAIN f}

\* the names bound by def or class, or to an imported class
CallableGlobals ==
    Range(known_tools)
    \cup {"HTTPServer", "BaseHTTPRequestHandler", "FastMCP", "get_registered_tools",
          "run_vercel_command", "MCPHTTPHandler", "check_port_in_use", "main"}

\* the decorated functions: @mcp.tool() above the def
DecoratedTools == Range(known_tools)

\* the tools that start with the "Validate Vercel token" guard
CredentialTools ==
    {"list_projects", "list_deployments", "get_project_info", "list_project_domains",
     "list_environment_variables", "get_user_info", "list_deployment_aliases"}

\* any(attr_name.startswith('__mcp') or 'mcp' in attr_name.lower()
\*     for attr_name in dir(func)): no function or class of the module has
\* such an attribute; whether the imported FastMCP class has one is the
\* library's affair (attr)
HasMcpAttr(name, attr) == name = "FastMCP" /\ attr

get_registered_tools(attr) ==
    LET IsTool(n) == n \in CallableGlobals
                       /\ (HasMcpAttr(n, attr) \/ n \in Range(known_tools))
        tools == SelectSeq(GlobalNames, IsTool)
    IN  IF tools = <<>> THEN known_tools ELSE tools

\* the def lines: parameter names, and those without a default
Signature(name) ==
    CASE name = "list_deployments" ->
            [names |-> {"project_id", "limit"}, required |-> {}]
      [] name \in {"get_project_info", "list_project_domains",
                   "list_environment_variables"} ->
            [names |-> {"project_id"}, required |-> {"project_id"}]
      [] name = "list_deployment_aliases" ->
            [names |-> {"deployment_id"}, required |-> {"deployment_id"}]
      [] name = "set_vercel_token" ->
            [names |-> {"token"}, required |-> {"token"}]
      [] name = "run_vercel_command" ->
            [names |-> {"command_args"}, required |-> {"command_args"}]
      [] name \in {"MCPHTTPHandler", "BaseHTTPRequestHandler"} ->
            [names |-> {"request", "client_address", "server"},
             required |-> {"request", "client_address", "server"}]
      [] name = "HTTPServer" ->
            [names |-> {"server_address", "RequestHandlerClass", "bind_and_activate"},
             required |-> {"server_address", "RequestHandlerClass"}]
      [] name = "check_port_in_use" ->
            [names |-> {"host", "port"}, required |-> {"host", "port"}]
      [] OTHER -> [names |-> {}, required |-> {}]

\* tool_func(**params): Python binds keyword arguments by name and raises
\* TypeError on a missing required one and on one the function does not take
Binds(name, params) ==
    /\ Signature(name).required \subseteq DOMAIN params
    /\ DOMAIN params \subseteq Signature(name).names

Arg(params, key, default) == IF key \in DOMAIN params THEN params[key] ELSE default

\* the call tool_func(**params), once the arguments are bound
CallGlobal(name, params, tok, env, attr) ==
    CASE name = "list_projects" -> list_projects(tok, env)
      [] name = "list_deployments" ->
            list_deployments(Arg(params, "project_id", JNull),
                             Arg(params, "limit", JNum(<<"5">>)), tok, env)
      [] name = "get_project_info" -> get_project_info(params["project_id"], tok, env)
      [] name = "set_vercel_token" -> set_vercel_token(params["token"], tok)
      [] name = "check_server_status" -> check_server_status(tok, env)
      [] name = "list_project_domains" ->
            list_project_domains(params["project_id"], tok, env)
      [] name = "list_environment_variables" ->
            list_environment_variables(params["project_id"], tok, env)
      [] name = "get_user_info" -> get_user_info(tok, env)
      [] name = "list_deployment_aliases" ->
            list_deployment_aliases(params["deployment_id"], tok, env)
      [] name = "run_vercel_command" ->
            run_vercel_command(params["command_args"], tok, env, <<>>)
      [] name = "get_registered_tools" ->
            Returned(JsonArray(get_registered_tools(attr)), tok, <<>>,
                     <<Line("Total tools discovered: {}", "", <<>>)>>)

----------------------------------------------------------------------------
(* MCPHTTPHandler *)

Headers(names) ==
    [h \in names |->
        CASE h = "Content-type" -> "application/json"
          [] h = "Access-Control-Allow-Origin" -> "*"
          [] h = "Connection" -> "close"
          [] h = "Content-Length" -> "len(body)"
          [] h = "Access-Control-Allow-Methods" -> "GET, POST, OPTIONS"
          [] OTHER -> "Content-Type"]

Response(code, names, body) == [code |-> code, headers |-> Headers(names), body |-> body]

LogRequest(code) == Line("log_message: {} {}", ToString(code), <<>>)

\* what a do_* method leaves behind
Handled(tok, resps, calls, lines, inv) ==
    [token |-> tok, responses |-> resps, outbound |-> calls, log |-> lines,
     invoked |-> inv, escaped |-> FALSE]
Escaped(tok, lines) ==
    [token |-> tok, responses |-> <<>>, outbound |-> <<>>, log |-> lines,
     invoked |-> <<>>, escaped |-> TRUE]

\* _send_json_response(data)
SendJsonResponse(data) ==
    [response |-> Response(200, {"Content-type", "Access-Control-Allow-Origin",
                                 "Connection", "Content-Length"}, data),
     lines |-> <<LogRequest(200), Line("Sending JSON response:", "", <<>>),
                 Line("json.dumps(data, indent=2)", "", <<>>)>>]

\* _handle_error(status_code, message)
HandleError(status_code, text, detail) ==
    [response |-> Response(status_code, {"Content-type", "Connection", "Content-Length"},
                           [error |-> <<text, detail>>]),
     lines |-> <<LogRequest(status_code)>>]

\* do_OPTIONS
DoOptions(tok) ==
    Handled(tok,
            <<Response(200, {"Access-Control-Allow-Origin", "Access-Control-Allow-Methods",
                             "Access-Control-Allow-Headers"}, <<>>)>>,
            <<>>, <<LogRequest(200)>>, <<>>)

PathText(path) ==
    IF path = <<>> THEN "/"
    ELSE IF Len(path) = 1 THEN "/" \o path[1]
    ELSE "/" \o path[1] \o "/" \o path[2]

Docstring(name) ==
    IF name \in CallableGlobals THEN "__doc__.strip()" ELSE "No description available"

\* do_GET
DoGet(path, tok, attr) ==
    LET first == <<Line("Received GET request: {}", PathText(path), <<>>)>>
    IN  IF path = <<"tools">>
        THEN LET registered_tools == get_registered_tools(attr)
                 tools_list == [i \in 1..Len(registered_tools) |->
                                  [name |-> registered_tools[i],
                                   description |-> Docstring(registered_tools[i])]]
                 sent == SendJsonResponse(JsonArray(tools_list))
             IN  Handled(tok, <<sent.response>>, <<>>,
                         first \o <<Line("MCP tool discovery request received", "", <<>>)>>
                               \o sent.lines, <<>>)
        ELSE IF path = <<>>
        THEN LET sent == SendJsonResponse([name |-> "MCP Vercel CLI Server",
                                           version |-> "1.0.0",
                                           description |-> "A server that implements the Model Context Protocol for Vercel CLI operations",
                                           status |-> "running"])
             IN  Handled(tok, <<sent.response>>, <<>>, first \o sent.lines, <<>>)
        ELSE LET sent == HandleError(404, "Not found: ", PathText(path))
             IN  Handled(tok, <<sent.response>>, <<>>, first \o sent.lines, <<>>)

KeyOrder == <<"project_id", "limit", "deployment_id", "token", "command_args", "bogus">>

\* the values in repr(params), as print(f"... with params: {params}") writes them
ParamsRepr(body) ==
    IF body.kind = "value" THEN <<ReprOf(body.val)>>
    ELSE LET InMap(k) == k \in DOMAIN body.params
             ks == SelectSeq(KeyOrder, InMap)
         IN  [i \in 1..Len(ks) |-> ReprOf(body.params[ks[i]])]

\* tool_func = globals().get(tool_name); not tool_func or not callable(tool_func)
ToolFound(tool_name) == tool_name \in CallableGlobals

\* except Exception as e: self._handle_error(500, f"Error calling tool: {str(e)}")
ToolErrorStatusBadRequest(e) == 400
ToolErrorStatus(e) == 500

\* do_POST
DoPost(req, tok, env, attr) ==
    LET path == req.path
        body == req.body
        first == <<Line("Received POST request: {}", PathText(path), <<>>)>>
    IN  IF ~(Len(path) >= 2 /\ path[1] = "tools")
        THEN LET sent == HandleError(404, "Not found: ", PathText(path))
             IN  Handled(tok, <<sent.response>>, <<>>, first \o sent.lines, <<>>)
        ELSE
        LET tool_name == path[2]
            second == first \o <<Line("Calling tool: {}", tool_name, <<>>)>>
            \* post_data is "" when nothing is read
            nothing == req.cl = "absent" \/ body.kind = "empty"
        IN  IF req.cl = "nonint" THEN Escaped(tok, second)
            ELSE IF ~nothing /\ body.kind = "badutf8" THEN Escaped(tok, second)
            ELSE IF ~nothing /\ body.kind = "badjson"
            THEN LET sent == HandleError(400, "Invalid JSON in request body", "")
                 IN  Handled(tok, <<sent.response>>, <<>>, second \o sent.lines, <<>>)
            ELSE IF ~ToolFound(tool_name)
            THEN LET sent == HandleError(404, "Tool not found: ", tool_name)
                 IN  Handled(tok, <<sent.response>>, <<>>, second \o sent.lines, <<>>)
            ELSE
            LET params == IF nothing THEN EmptyMap ELSE body.params
                shown == IF nothing THEN <<>> ELSE ParamsRepr(body)
                third == second \o <<Line("Calling tool: {} with params: {}",
                                          tool_name, shown)>>
                fail(e, t, calls, lines, inv) ==
                    LET sent == HandleError(ToolErrorStatus(e), "Error calling tool: ", e)
                    IN  Handled(t, <<sent.response>>, calls,
                                lines \o <<Line("Error calling tool {}: {}", tool_name, <<>>)>>
                                      \o sent.lines, inv)
            IN  IF ~nothing /\ body.kind = "value"
                THEN fail("TypeError", tok, <<>>, third, <<>>)
                ELSE IF ~Binds(tool_name, params)
                THEN fail("TypeError", tok, <<>>, third, <<>>)
                ELSE LET r == CallGlobal(tool_name, params, tok, env, attr)
                         inv == <<[name |-> tool_name, params |-> params]>>
                     IN  IF r.raised
                         THEN fail(r.exc, r.token, r.calls, third \o r.lines, inv)
                         ELSE LET sent == SendJsonResponse(r.result)
                              IN  Handled(r.token, <<sent.response>>, r.calls,
                                          third \o r.lines \o sent.lines, inv)

----------------------------------------------------------------------------
(* The requests drawn *)

Body(kind, val, params) == [kind |-> kind, val |-> val, params |-> params]
EmptyBody == Body("empty", JNull, EmptyMap)
BadUtf8Body == Body("badutf8", JNull, EmptyMap)      \* bytes that are not UTF-8
BadJsonBody == Body("badjson", JNull, EmptyMap)      \* text json.loads rejects

\* the bodies drawn with every path
CommonMaps == {EmptyMap, [bogus |-> JNull]}
CommonBodies ==
    {EmptyBody, BadUtf8Body, BadJsonBody, Body("value", JNull, EmptyMap)}
    \cup {Body("object", JNull, m) : m \in CommonMaps}

CommandArgs ==
    {JArr(<<"ls">>), JArr(<<"list">>), JArr(<<"list", "abcd", "--limit", "3">>),
     JArr(<<"deploy">>), ArrOfLen(0)}

\* the parameter maps drawn with a tool's own path
MapsFor(name) ==
    CASE name = "list_deployments" ->
            {[project_id |-> StrOfLen(MaskKeep)],
             [project_id |-> StrOfLen(0), limit |-> JNum(<<"0">>)],
             [project_id |-> StrOfLen(MaskKeep), limit |-> JNum(<<"3">>)]}
      [] name = "get_project_info" ->
            {[project_id |-> StrOfLen(MaskKeep)],
             [project_id |-> StrOfLen(MaskKeep), bogus |-> JNull]}
      [] name \in {"list_project_domains", "list_environment_variables"} ->
            {[project_id |-> StrOfLen(MaskKeep)]}
      [] name = "list_deployment_aliases" -> {[deployment_id |-> StrOfLen(MaskKeep)]}
      [] name = "set_vercel_token" -> {[token |-> v] : v \in TokenValues}
      [] name = "run_vercel_command" -> {[command_args |-> a] : a \in CommandArgs}
      [] name = "does_not_exist" -> {[token |-> ExampleToken]}
      [] OTHER -> {}

\* the names a request path may carry after /tools/
RequestNames ==
    Range(known_tools)
    \cup {"run_vercel_command", "get_registered_tools", "MCPHTTPHandler",
          "VERCEL_TOKEN", "does_not_exist", "List_Projects"}

PostPaths == {<<"tools", n>> : n \in RequestNames} \cup {<<>>, <<"other", "x">>}
GetPaths == {<<>>, <<"tools">>, <<"tools", "list_projects">>, <<"other">>}

\* a request without a Content-Length header has no body; one whose header
\* is no integer is drawn with an empty body
Request(method, path, cl, body) ==
    [method |-> method, path |-> path, cl |-> cl, body |-> body]
PostRequests ==
    {Request("POST", p, "exact", b) : p \in PostPaths, b \in CommonBodies}
    \cup UNION {{Request("POST", <<"tools", n>>, "exact", Body("object", JNull, m)) :
                    m \in MapsFor(n)} : n \in RequestNames}
    \cup {Request("POST", p, cl, EmptyBody) : p \in PostPaths, cl \in {"absent", "nonint"}}

NoRequest == Request("none", <<>>, "absent", EmptyBody)

\* the client's main() has passed its startup checks and prints the menu
AtMenu(debug) ==
    [pc |-> "menu", debug_mode |-> debug, choice |-> "", shown |-> "", calls |-> <<>>,
     reactions |-> <<>>, exc |-> ""]

\* the connections clients hold open to the server
Conns == 1..MaxConns
Idle == [pc |-> "idle", tool |-> "", token |-> JNull, tested |-> JNull, header |-> <<>>]

----------------------------------------------------------------------------
(* The state machine *)

Init ==
    /\ VERCEL_TOKEN \in {StrOfLen(0), ExampleToken}   \* os.environ.get("VERCEL_TOKEN", "")
    /\ fastmcpAttr \in BOOLEAN
    /\ request = NoRequest
    /\ responses = <<>>
    /\ outbound = <<>>
    /\ log = <<>>
    /\ invoked = <<>>
    /\ upstream = NoEnv
    /\ escaped = FALSE
    /\ conns = [c \in Conns |-> Idle]
    /\ held = {}
    /\ client = AtMenu(FALSE)

Finish(req, env, r) ==
    /\ VERCEL_TOKEN' = r.token
    /\ request' = req
    /\ responses' = r.responses
    /\ outbound' = r.outbound
    /\ log' = r.log
    /\ invoked' = r.invoked
    /\ upstream' = env
    /\ escaped' = r.escaped
    /\ UNCHANGED <<fastmcpAttr, conns, held, client>>

do_OPTIONS ==
    \E p \in GetPaths :
        Finish(Request("OPTIONS", p, "absent", EmptyBody), NoEnv, DoOptions(VERCEL_TOKEN))

do_GET ==
    \E p \in GetPaths :
        Finish(Request("GET", p, "absent", EmptyBody), NoEnv,
               DoGet(p, VERCEL_TOKEN, fastmcpAttr))

\* what the handler asks of the world outside: the upstream API when it calls
\* requests.get, the vercel binary when it runs check_server_status
EnvFor(r0) ==
    IF r0.outbound # <<>> THEN UpstreamOutcomes
    ELSE IF r0.invoked # <<>> /\ r0.invoked[1].name = "check_server_status" THEN CliOutcomes
    ELSE {NoEnv}

do_POST ==
    \E req \in PostRequests :
        LET r0 == DoPost(req, VERCEL_TOKEN, NoEnv, fastmcpAttr)
        IN  \E env \in EnvFor(r0) :
                LET r == IF env = NoEnv THEN r0
                         ELSE DoPost(req, VERCEL_TOKEN, env, fastmcpAttr)
                IN  Finish(req, env, r)

Next == do_GET \/ do_POST \/ do_OPTIONS

Spec == Init /\ [][Next]_vars

----------------------------------------------------------------------------
(* The same server seen statement by statement.  Clients connect whenever   *)
(* they like; the serve_forever thread takes one connection, runs its       *)
(* handler to the end and only then takes the next.  A credential-reading   *)
(* tool reads VERCEL_TOKEN twice: in the "Validate Vercel token" guard and  *)
(* when it builds the Authorization header.                                 *)

\* the requests that meet on the credential
ConnRequests ==
    {[tool |-> "get_project_info", token |-> JNull]}
    \cup {[tool |-> "set_vercel_token", token |-> v] :
            v \in {StrOfLen(0), StrOfLen(MaxTokenLen), ExampleToken}}

Handling(c) == conns[c].pc \in {"start", "tested", "sent"}

\* HTTPServer is no ThreadingMixIn server: serve_forever handles a request
\* inside its own loop, so it accepts none while one is being handled
OneThreadPerRequest(c) == TRUE
OneThread(c) == \A d \in Conns : ~Handling(d)

\* the rest of the state belongs to the request-level view and the client
ConnStep == UNCHANGED <<fastmcpAttr, request, responses, outbound, log, invoked,
                        upstream, escaped, client>>

\* a client connects and sends its request; it waits in the listen queue
Connect(c) ==
    /\ conns[c].pc = "idle"
    /\ \E q \in ConnRequests :
          conns' = [conns EXCEPT ![c] = [Idle EXCEPT !.pc = "waiting", !.tool = q.tool,
                                                     !.token = q.token]]
    /\ UNCHANGED <<VERCEL_TOKEN, held>>
    /\ ConnStep

\* serve_forever takes the connection and do_POST calls the tool
Accept(c) ==
    /\ conns[c].pc = "waiting"
    /\ OneThread(c)
    /\ conns' = [conns EXCEPT ![c].pc = "start"]
    /\ UNCHANGED <<VERCEL_TOKEN, held>>
    /\ ConnStep

\* set_vercel_token: VERCEL_TOKEN = token, then the answer
SetCredential(c) ==
    /\ conns[c].pc = "start"
    /\ conns[c].tool = "set_vercel_token"
    /\ VERCEL_TOKEN' = set_vercel_token(conns[c].token, VERCEL_TOKEN).token
    /\ held' = held \cup {VERCEL_TOKEN'}
    /\ conns' = [conns EXCEPT ![c] = Idle]
    /\ ConnStep

\* get_project_info: if not VERCEL_TOKEN: return the error envelope
TestCredential(c) ==
    /\ conns[c].pc = "start"
    /\ conns[c].tool = "get_project_info"
    /\ conns' = [conns EXCEPT ![c] =
                    IF TokenMissing(VERCEL_TOKEN) THEN Idle
                    ELSE [@ EXCEPT !.pc = "tested", !.tested = VERCEL_TOKEN]]
    /\ UNCHANGED <<VERCEL_TOKEN, held>>
    /\ ConnStep

\* get_project_info: headers = {"Authorization": f"Bearer {VERCEL_TOKEN}"}
\* and requests.get
SendRequest(c) ==
    /\ conns[c].pc = "tested"
    /\ conns' = [conns EXCEPT ![c].pc = "sent",
                              ![c].header =
                                  GetCall("/v9/projects/{}", <<>>, EmptyMap,
                                          VERCEL_TOKEN).auth.token]
    /\ UNCHANGED <<VERCEL_TOKEN, held>>
    /\ ConnStep

\* the upstream answer is turned into the envelope and written
Close(c) ==
    /\ conns[c].pc = "sent"
    /\ conns' = [conns EXCEPT ![c] = Idle]
    /\ UNCHANGED <<VERCEL_TOKEN, held>>
    /\ ConnStep

ServeNext ==
    \E c \in Conns :
        \/ Connect(c)
        \/ Accept(c)
        \/ SetCredential(c)
        \/ TestCredential(c)
        \/ SendRequest(c)
        \/ Close(c)

\* startup, with the value VERCEL_TOKEN starts with recorded
ServeInit ==
    /\ VERCEL_TOKEN \in {StrOfLen(0), ExampleToken}
    /\ held = {VERCEL_TOKEN}
    /\ conns = [c \in Conns |-> Idle]
    /\ fastmcpAttr \in BOOLEAN
    /\ request = NoRequest
    /\ responses = <<>>
    /\ outbound = <<>>
    /\ log = <<>>
    /\ invoked = <<>>
    /\ upstream = NoEnv
    /\ escaped = FALSE
    /\ client = AtMenu(FALSE)

ServeSpec == ServeInit /\ [][ServeNext]_vars

----------------------------------------------------------------------------
(* The terminal client (src/mcp_vercel_client.py): main()'s menu loop.  One *)
(* action per menu choice, run to the point where the loop asks again,      *)
(* returns or dies of an exception.  The server's answers are drawn from    *)
(* ServerReactions, the user's answers from the prompt inputs.              *)

\* a parsed JSON body, as far as the client looks into it: its type, its
\* length, its "status", and under "data" the list stored at one key
NoData == [kind |-> "absent", key |-> "", elems |-> <<>>]
NullData == [kind |-> "null", key |-> "", elems |-> <<>>]
ListData == [kind |-> "list", key |-> "", elems |-> <<>>]
DictData(key, elems) == [kind |-> "dict", key |-> key, elems |-> elems]
None == [kind |-> "None", len |-> 0, status |-> "", data |-> NoData]
DictBody(status, data) == [kind |-> "dict", len |-> 3, status |-> status, data |-> data]
ListBody(n) == [kind |-> "list", len |-> n, status |-> "", data |-> NoData]
\* an element of data.projects or data.deployments
DictElem(id) == [kind |-> "dict", id |-> id]
StrElem(id) == [kind |-> "str", id |-> id]

Reaction(http, text, body) == [http |-> http, text |-> text, body |-> body]
ConnectionFailed == Reaction(0, "", None)
JsonBodies ==
    {DictBody("error", NoData),
     DictBody("online", NoData),
     DictBody("success", NoData),
     DictBody("success", NullData),
     DictBody("success", ListData),
     DictBody("success", DictData("projects", <<>>)),
     DictBody("success", DictData("projects", <<DictElem("prj_1"), DictElem("prj_2")>>)),
     DictBody("success", DictData("projects", <<StrElem("prj_1")>>)),
     DictBody("success", DictData("deployments", <<DictElem("dpl_1")>>)),
     ListBody(0),
     ListBody(1)}
ServerReactions ==
    {ConnectionFailed, Reaction(200, "", None), Reaction(200, "not json", None)}
    \cup {Reaction(code, "{\"error\": \"...\"}", None) : code \in {400, 404, 500}}
    \cup {Reaction(200, "json", b) : b \in JsonBodies}
\* the reactions drawn for the call that follows a selection
AnswerReactions ==
    {ConnectionFailed, Reaction(200, "", None), Reaction(500, "{\"error\": \"...\"}", None),
     Reaction(200, "json", DictBody("error", NoData)),
     Reaction(200, "json", DictBody("success", NoData)),
     Reaction(200, "json", ListBody(0))}

\* bool(v) for None, a dict and a list
PyTruthy(v) == v.kind # "None" /\ v.len > 0

\* call_tool(tool_name, params): the parsed body, or None
call_tool(reaction) ==
    IF reaction.http = 0 THEN None                     \* except requests.RequestException
    ELSE IF reaction.http = 200
    THEN IF reaction.text = "" THEN None
         ELSE IF reaction.text = "not json" THEN None  \* except json.JSONDecodeError
         ELSE reaction.body
    ELSE None

\* what a select_* function or a menu branch comes to
Selected(item) == [raised |-> FALSE, exc |-> "", found |-> TRUE, item |-> item, shown |-> "table"]
Nothing(shown) ==
    [raised |-> FALSE, exc |-> "", found |-> FALSE, item |-> DictElem(""), shown |-> shown]
Dies(exc) ==
    [raised |-> TRUE, exc |-> exc, found |-> FALSE, item |-> DictElem(""), shown |-> "traceback"]

\* select_project() and select_deployment(): the same code over
\* data.projects and data.deployments; pick is the row the user selects
SelectFrom(key, reaction, pick) ==
    LET response == call_tool(reaction)
    IN  IF ~PyTruthy(response) THEN Nothing("failed")
        ELSE IF response.kind # "dict" THEN Dies("AttributeError")    \* response.get
        ELSE IF response.status # "success" THEN Nothing("failed")
        ELSE IF response.data.kind = "absent" THEN Nothing("none found")
        ELSE IF response.data.kind # "dict" THEN Dies("AttributeError")  \* .get(key, [])
        ELSE LET rows == IF response.data.key = key THEN response.data.elems ELSE <<>>
             IN  IF rows = <<>> THEN Nothing("none found")
                 ELSE IF \E i \in 1..Len(rows) : rows[i].kind # "dict"
                 THEN Dies("AttributeError")                           \* project.get
                 ELSE Selected(rows[IF pick \in 1..Len(rows) THEN pick ELSE 1])
select_project(reaction, pick) == SelectFrom("projects", reaction, pick)
select_deployment(reaction, pick) == SelectFrom("deployments", reaction, pick)

\* if response: print the JSON, else: print "... or error occurred"
ShowResponse(reaction) == IF PyTruthy(call_tool(reaction)) THEN "json" ELSE "failed"

Digits == {"0", "1", "2", "3", "4", "5", "6", "7", "8", "9"}
\* the texts int() takes: decimal digits after an optional sign
IntParses(cs) ==
    LET ds == IF cs # <<>> /\ cs[1] \in {"+", "-"} THEN Tail(cs) ELSE cs
    IN  ds # <<>> /\ \A i \in 1..Len(ds) : ds[i] \in Digits
LimitInputs == {<<"5">>, <<"-", "1">>, <<"a", "b", "c">>}

\* the loop is back at the menu after a choice
Back(c, choice, shown, calls, reactions) ==
    [c EXCEPT !.pc = "menu", !.choice = choice, !.shown = shown, !.calls = calls,
              !.reactions = reactions]
\* an exception leaves main()
Crash(c, choice, exc, calls, reactions) ==
    [c EXCEPT !.pc = "crashed", !.choice = choice, !.shown = "traceback",
              !.calls = calls, !.reactions = reactions, !.exc = exc]

DirectTools == [c \in {"1", "6", "8"} |->
                   IF c = "1" THEN "list_projects"
                   ELSE IF c = "6" THEN "get_user_info" ELSE "check_server_status"]
ProjectTools == [c \in {"3", "4", "5"} |->
                    IF c = "3" THEN "get_project_info"
                    ELSE IF c = "4" THEN "list_project_domains"
                    ELSE "list_environment_variables"]

\* the rest of the state is the server's and does not move
ClientStep == UNCHANGED <<VERCEL_TOKEN, fastmcpAttr, request, responses, outbound, log,
                          invoked, upstream, escaped, conns, held>>

\* choices 1, 6 and 8: one call, shown or reported
ChooseDirect ==
    /\ client.pc = "menu"
    /\ \E choice \in DOMAIN DirectTools, r \in ServerReactions :
          client' = Back(client, choice, ShowResponse(r), <<DirectTools[choice]>>, <<r>>)
    /\ ClientStep

\* choice 2: optional project filter, then the limit, then list_deployments
ChooseDeployments ==
    /\ client.pc = "menu"
    /\ \E use_project \in BOOLEAN, limit \in LimitInputs, pick \in 1..2,
          r1 \in ServerReactions, r2 \in AnswerReactions :
          LET sel == IF use_project THEN select_project(r1, pick) ELSE Nothing("")
              before == IF use_project THEN <<"list_projects">> ELSE <<>>
              seen == IF use_project THEN <<r1>> ELSE <<>>
          IN  client' =
                IF sel.raised THEN Crash(client, "2", sel.exc, before, seen)
                ELSE IF ~IntParses(limit)                  \* int(limit)
                THEN Crash(client, "2", "ValueError", before, seen)
                ELSE Back(client, "2", ShowResponse(r2),
                          before \o <<"list_deployments">>, seen \o <<r2>>)
    /\ ClientStep

\* choices 3, 4 and 5: select a project, then one call about it
ChooseProjectTool ==
    /\ client.pc = "menu"
    /\ \E choice \in DOMAIN ProjectTools, pick \in 1..2,
          r1 \in ServerReactions, r2 \in AnswerReactions :
          LET sel == select_project(r1, pick)
          IN  client' =
                IF sel.raised THEN Crash(client, choice, sel.exc, <<"list_projects">>, <<r1>>)
                ELSE IF ~sel.found
                THEN Back(client, choice, sel.shown, <<"list_projects">>, <<r1>>)
                ELSE Back(client, choice, ShowResponse(r2),
                          <<"list_projects", ProjectTools[choice]>>, <<r1, r2>>)
    /\ ClientStep

\* choice 7: select a deployment, then list_deployment_aliases
ChooseAliases ==
    /\ client.pc = "menu"
    /\ \E pick \in 1..2,
          r1 \in ServerReactions, r2 \in AnswerReactions :
          LET sel == select_deployment(r1, pick)
          IN  client' =
                IF sel.raised THEN Crash(client, "7", sel.exc, <<"list_deployments">>, <<r1>>)
                ELSE IF ~sel.found
                THEN Back(client, "7", sel.shown, <<"list_deployments">>, <<r1>>)
                ELSE Back(client, "7", ShowResponse(r2),
                          <<"list_deployments", "list_deployment_aliases">>, <<r1, r2>>)
    /\ ClientStep

\* choice 9: break, return 0
ChooseExit ==
    /\ client.pc = "menu"
    /\ client' = [client EXCEPT !.pc = "exited", !.choice = "9", !.shown = "goodbye",
                                !.calls = <<>>, !.reactions = <<>>]
    /\ ClientStep

\* choice 10: debug_mode = not debug_mode
ChooseDebug ==
    /\ client.pc = "menu"
    /\ client' = [Back(client, "10", "debug", <<>>, <<>>)
                    EXCEPT !.debug_mode = ~client.debug_mode]
    /\ ClientStep

\* any other text matches no branch: the menu is printed again
ChooseOther ==
    /\ client.pc = "menu"
    /\ \E choice \in {"0", "11", "list"} :
          client' = Back(client, choice, "", <<>>, <<>>)
    /\ ClientStep

ClientNext ==
    \/ ChooseDirect
    \/ ChooseDeployments
    \/ ChooseProjectTool
    \/ ChooseAliases
    \/ ChooseExit
    \/ ChooseDebug
    \/ ChooseOther

\* the client at its menu; the server's own state does not show in it
ClientInit == Init /\ VERCEL_TOKEN = ExampleToken /\ ~fastmcpAttr

ClientSpec == ClientInit /\ [][ClientNext]_vars

----------------------------------------------------------------------------
(* Reading the last request and its answer *)

IsToolPost(req) == req.method = "POST" /\ Len(req.path) >= 2 /\ req.path[1] = "tools"
NameOf(req) == req.path[2]

\* the request's Content-Length header is absent or an integer
WellFramed(req) == req.cl \in {"absent", "exact"}
\* the body read is empty or a JSON object
CarriesMap(req) == WellFramed(req) /\ (req.cl = "absent" \/ req.body.kind \in {"empty", "object"})
MapOf(req) == IF req.cl = "absent" \/ req.body.kind = "empty" THEN EmptyMap ELSE req.body.params

\* a POST /tools/{name} for one of names whose parameters bind to the handler
BoundCall(req, names) ==
    /\ IsToolPost(req)
    /\ NameOf(req) \in names
    /\ CarriesMap(req)
    /\ Binds(NameOf(req), MapOf(req))

\* a POST /tools/set_vercel_token with the body {"token": v}
IsSetToken(req) ==
    /\ IsToolPost(req)
    /\ NameOf(req) = "set_vercel_token"
    /\ req.cl = "exact"
    /\ req.body.kind = "object"
    /\ DOMAIN req.body.params = {"token"}
TokenOf(req) == req.body.params["token"]

Answered(resps, code) == Len(resps) = 1 /\ resps[1].code = code
AnsweredStatus(resps, code, status) ==
    /\ Answered(resps, code)
    /\ "status" \in DOMAIN resps[1].body
    /\ resps[1].body.status = status

----------------------------------------------------------------------------
(* C1: a credential-requiring tool called with parameters that bind, while  *)
(* the credential is empty, is answered 200 with status "error" and makes   *)
(* no outbound call.                                                        *)
C1_NoCredentialNoCall ==
    [][(BoundCall(request', CredentialTools) /\ ~Truthy(VERCEL_TOKEN))
        => (/\ AnsweredStatus(responses', 200, "error")
            /\ Len(outbound') = 0)]_vars

C1_Witness ==
    /\ BoundCall(request, {"get_project_info"})
    /\ VERCEL_TOKEN = StrOfLen(0)
    /\ invoked # <<>>
    /\ AnsweredStatus(responses, 200, "error")
    /\ outbound = <<>>

(* C2 as stated: a POST /tools/{name} for a name that is no registered tool *)
(* is answered 404 whatever the body, no handler runs and no outbound call  *)
(* is made.                                                                 *)
C2_UnregisteredIs404 ==
    (IsToolPost(request) /\ WellFramed(request) /\ NameOf(request) \notin DecoratedTools)
        => (/\ Answered(responses, 404)
            /\ invoked = <<>>
            /\ outbound = <<>>)

(* C3 as stated: a registered tool posted a non-empty body that is not      *)
(* valid JSON is answered with a 4xx status and its handler does not run.   *)
C3_BadJsonIs400 ==
    (/\ IsToolPost(request)
     /\ NameOf(request) \in DecoratedTools
     /\ request.cl = "exact"
     /\ request.body.kind \in {"badjson", "badutf8"})
        => (/\ Len(responses) = 1
            /\ responses[1].code >= 400
            /\ responses[1].code < 500
            /\ invoked = <<>>)

(* C4 as stated: with the credential configured, every upstream status in   *)
(* [200, 300) is answered 200 with status "success", every other one 200    *)
(* with status "error".                                                     *)
C4_EveryStatusMapped ==
    (BoundCall(request, CredentialTools) /\ upstream.kind = "response")
        => IF upstream.status >= 200 /\ upstream.status < 300
           THEN AnsweredStatus(responses, 200, "success")
           ELSE AnsweredStatus(responses, 200, "error")

(* C4 amended: with the credential configured and an upstream response of   *)
(* status s and body b, the answer is HTTP 200 with: for 200 <= s < 300 and *)
(* b valid JSON, {status "success", data the parsed b, timestamp}; for      *)
(* 200 <= s < 300 and b not valid JSON, {status "error", message "Error:    *)
(* ...", timestamp} without an error field; otherwise {status "error",      *)
(* message containing the decimal s, error b, timestamp}.                   *)
C4_StatusMapped ==
    (BoundCall(request, CredentialTools) /\ upstream.kind = "response")
        => LET s == upstream.status
               b == upstream.text
               body == responses[1].body
           IN  /\ Answered(responses, 200)
               /\ "timestamp" \in DOMAIN body
               /\ IF s >= 200 /\ s < 300
                  THEN IF IsJsonText(b)
                       THEN /\ DOMAIN body = {"status", "data", "timestamp"}
                            /\ body.status = "success"
                            /\ body.data = JsonOf(b)
                       ELSE /\ DOMAIN body = {"status", "message", "timestamp"}
                            /\ body.status = "error"
                            /\ body.message[1] = "Error: "
                  ELSE /\ DOMAIN body = {"status", "message", "error", "timestamp"}
                       /\ body.status = "error"
                       /\ \E i \in DOMAIN body.message : body.message[i] = ToString(s)
                       /\ body.error = b

C4_Witness ==
    /\ BoundCall(request, {"list_deployment_aliases"})
    /\ upstream.kind = "response"
    /\ upstream.status = 299
    /\ IsJsonText(upstream.text)
    /\ AnsweredStatus(responses, 200, "success")
    /\ Len(outbound) = 1

(* C5: once set_vercel_token has returned for a non-empty string t, the     *)
(* credential is t, it stays t until the next set_vercel_token, and every   *)
(* credential-requiring tool invoked meanwhile makes its call with          *)
(* Authorization: Bearer t; the last token set wins.                        *)
NonEmptyString(v) == v.kind = "str" /\ Len(v.items) > 0
C5_NextCallUsesToken ==
    [][/\ (IsSetToken(request') /\ NonEmptyString(TokenOf(request')))
            => (/\ AnsweredStatus(responses', 200, "success")
                /\ VERCEL_TOKEN' = TokenOf(request'))
       /\ (IsSetToken(request) /\ NonEmptyString(TokenOf(request))
             /\ BoundCall(request', CredentialTools))
            => (/\ Len(outbound') = 1
                /\ outbound'[1].auth = [scheme |-> "Bearer", token |-> TokenOf(request).items])
       /\ (NonEmptyString(VERCEL_TOKEN) /\ BoundCall(request', CredentialTools))
            => (/\ Len(outbound') = 1
                /\ outbound'[1].auth = [scheme |-> "Bearer", token |-> VERCEL_TOKEN.items]
                /\ VERCEL_TOKEN' = VERCEL_TOKEN)
       /\ ~(IsToolPost(request') /\ NameOf(request') = "set_vercel_token")
            => VERCEL_TOKEN' = VERCEL_TOKEN]_vars

\* a call carrying a token the process did not start with
C5_Witness ==
    /\ BoundCall(request, CredentialTools)
    /\ Len(outbound) = 1
    /\ outbound[1].auth = [scheme |-> "Bearer", token |-> SubSeq(Alphabet, 1, MaxTokenLen)]
    /\ VERCEL_TOKEN = StrOfLen(MaxTokenLen)

(* C6 as stated: set_vercel_token succeeds for every JSON value v sent as   *)
(* {"token": v}: the answer is 200 with status "success" and the credential *)
(* afterwards is v.                                                         *)
C6_SetAlwaysSucceeds ==
    IsSetToken(request)
        => (/\ AnsweredStatus(responses, 200, "success")
            /\ VERCEL_TOKEN = TokenOf(request))

\* the fields of a response body that could carry a form of the token: all
\* but the three whose text is fixed
TokenFields(body) == DOMAIN body \ {"status", "message", "timestamp"}

\* the masked form as the specification words it
FirstAndLast(cs) ==
    SubSeq(cs, 1, 4) \o <<"*", "*", "*", "*">> \o SubSeq(cs, Len(cs) - 3, Len(cs))
MaskedLine(cs) == [fmt |-> "Vercel token updated: {}", name |-> "", args |-> <<cs>>]

(* C7 as stated: the response of set_vercel_token includes a masked form of *)
(* the token, "abcd****efgh" for the token "abcd1234efgh".                  *)
C7_ResponseHasMasked ==
    (/\ IsSetToken(request)
     /\ TokenOf(request) = ExampleToken
     /\ Answered(responses, 200))
        => TokenFields(responses[1].body) # {}

(* C7 amended: set_vercel_token writes a masked form of a string token to   *)
(* the server log and not to the response, whose fields are status, message *)
(* and timestamp: for a token longer than 8 characters the logged form is   *)
(* its first 4 characters, "****" and its last 4 characters, for a token of *)
(* at most 8 characters it is "****"; for "abcd1234efgh" it is              *)
(* "abcd****efgh".                                                          *)
C7_LogHasMasked ==
    (IsSetToken(request) /\ TokenOf(request).kind = "str")
        => LET t == TokenOf(request).items
           IN  /\ Answered(responses, 200)
               /\ DOMAIN responses[1].body = {"status", "message", "timestamp"}
               /\ \E i \in DOMAIN log :
                     log[i] = MaskedLine(IF Len(t) > 8 THEN FirstAndLast(t)
                                         ELSE <<"*", "*", "*", "*">>)
               /\ (t = ExampleToken.items)
                     => \E i \in DOMAIN log :
                           log[i] = MaskedLine(<<"a","b","c","d","*","*","*","*",
                                                 "e","f","g","h">>)

C7_Witness ==
    /\ IsSetToken(request)
    /\ TokenOf(request) = ExampleToken
    /\ Answered(responses, 200)
    /\ \E i \in DOMAIN log :
          log[i] = MaskedLine(<<"a","b","c","d","*","*","*","*","e","f","g","h">>)

(* C8 as stated: no line the server writes to its log contains the token    *)
(* passed to set_vercel_token in full.                                      *)
C8_TokenNeverLogged ==
    (IsSetToken(request) /\ NonEmptyString(TokenOf(request)))
        => \A i \in DOMAIN log : \A j \in DOMAIN log[i].args :
              ~Contains(log[i].args[j], TokenOf(request).items)

(* C9 as stated: GET /tools answers with exactly one entry for each of the  *)
(* nine decorated tools and nothing else.                                   *)
C9_ToolsListedOnce ==
    (request.method = "GET" /\ request.path = <<"tools">>)
        => LET entries == responses[1].body.array
           IN  /\ Answered(responses, 200)
               /\ Len(entries) = 9
               /\ Len(entries) = Cardinality(DecoratedTools)
               /\ \A n \in DecoratedTools :
                     Cardinality({i \in DOMAIN entries : entries[i].name = n}) = 1

(* C10 as stated: every request handled ends with exactly one response      *)
(* written and no exception leaving the do_* method.                        *)
C10_AlwaysOneResponse ==
    request.method # "none" => (Len(responses) = 1 /\ ~escaped)

(* C11 as stated: every response the server writes, on every route and with *)
(* every status, carries Access-Control-Allow-Origin: * and an explicit     *)
(* Content-Length header.                                                   *)
C11_CorsAndLengthOnAll ==
    \A i \in 1..Len(responses) :
        LET h == responses[i].headers
        IN  /\ "Access-Control-Allow-Origin" \in DOMAIN h
            /\ h["Access-Control-Allow-Origin"] = "*"
            /\ "Content-Length" \in DOMAIN h

\* params without the key k
WithoutKey(params, k) == [x \in DOMAIN params \ {k} |-> params[x]]

(* C12 as stated: a parameter key that names no argument of the handler is  *)
(* ignored: a registered tool posted a map with such a key is answered with *)
(* the same HTTP status and the same envelope status, and makes the same    *)
(* outbound calls, as when posted the map without it.                       *)
C12_UnknownKeyIgnored ==
    [][(/\ IsToolPost(request')
        /\ NameOf(request') \in DecoratedTools
        /\ request'.cl = "exact"
        /\ request'.body.kind = "object"
        /\ "bogus" \in DOMAIN request'.body.params)
        => LET plain == Request("POST", request'.path, "exact",
                                Body("object", JNull,
                                     WithoutKey(request'.body.params, "bogus")))
               r == DoPost(plain, VERCEL_TOKEN, upstream', fastmcpAttr)
           IN  /\ Len(responses') = Len(r.responses)
               /\ \A i \in 1..Len(responses') :
                     /\ responses'[i].code = r.responses[i].code
                     /\ DOMAIN responses'[i].body = DOMAIN r.responses[i].body
               /\ Len(outbound') = Len(r.outbound)]_vars

HasMask(v) == v.kind = "str" \/ (v.kind = "arr" /\ Len(v.items) =< MaskThreshold)

C14_OneCallPerInvocation ==
    [][/\ (/\ invoked' # <<>>
           /\ invoked'[1].name \in DecoratedTools
           /\ (invoked'[1].name \in CredentialTools => Truthy(VERCEL_TOKEN)))
          => Len(outbound') = 1
       /\ Len(outbound') =< 1]_vars

(* C14: every invocation of one of the seven credential-requiring tools     *)
(* made while the credential is configured makes exactly one outbound call; *)
(* check_server_status and set_vercel_token make none; no request of any    *)
(* kind makes more than one.                                                *)
C14_OneCallPerCredentialTool ==
    [][/\ (/\ invoked' # <<>>
           /\ invoked'[1].name \in CredentialTools
           /\ Truthy(VERCEL_TOKEN))
          => Len(outbound') = 1
       /\ (/\ invoked' # <<>>
           /\ invoked'[1].name \in {"check_server_status", "set_vercel_token"})
          => Len(outbound') = 0
       /\ Len(outbound') =< 1]_vars

C14_Witness ==
    /\ invoked # <<>>
    /\ invoked[1].name = "list_deployments"
    /\ DOMAIN invoked[1].params = {"project_id", "limit"}
    /\ upstream.kind = "netfail"
    /\ Len(outbound) = 1
    /\ outbound[1].endpoint = "/v6/deployments"

(* C15: whenever set_vercel_token requests and credential-reading requests  *)
(* are open at the same time, at most one request is being handled; the     *)
(* token a reading tool sends in its Authorization header is the token it   *)
(* tested for presence, and it is one whole value the credential has held:  *)
(* the startup value or a token passed to set_vercel_token.                 *)
C15_WholeTokenOneAtATime ==
    /\ Cardinality({c \in Conns : Handling(c)}) =< 1
    /\ \A c \in Conns :
          conns[c].pc = "sent"
            => /\ conns[c].header = StrOf(conns[c].tested)
               /\ \E v \in held : conns[c].header = StrOf(v)
               /\ conns[c].header = StrOf(VERCEL_TOKEN)

C15_Witness ==
    \E c, d \in Conns :
        /\ conns[c].pc = "sent"
        /\ conns[c].header = StrOf(StrOfLen(MaxTokenLen))
        /\ conns[d].pc = "waiting"
        /\ conns[d].tool = "set_vercel_token"
        /\ conns[d].token = ExampleToken
        /\ Cardinality(held) >= 2

\* the server's answer is a failure at the HTTP level or in the envelope
FailedReaction(r) ==
    \/ r.http # 200
    \/ r.text # "json"
    \/ r.body.kind = "dict" /\ r.body.status = "error"

(* C16 as stated: whatever the menu choices, the prompt inputs and the      *)
(* server's reactions, no exception leaves the client's menu loop, and a    *)
(* call that failed at the HTTP level or in the envelope is reported as a   *)
(* failed operation.                                                        *)
C16_LoopNeverCrashes ==
    /\ client.pc \in {"menu", "exited"}
    /\ (client.reactions # <<>> /\ FailedReaction(client.reactions[Len(client.reactions)]))
          => client.shown = "failed"

\* the handler's body ran: its first statement prints "Tool call: ..."
BodyRan(lines) == \E i \in 1..Len(lines) : lines[i].fmt = "Tool call: {}"

(* C17: a POST for a registered tool whose parameter map lacks an argument  *)
(* the handler requires is answered 500; the handler's body does not run,   *)
(* no outbound call is made and the credential stays as it was, whether or  *)
(* not a credential is configured.                                          *)
C17_MissingArgIs500 ==
    [][(/\ IsToolPost(request')
        /\ NameOf(request') \in DecoratedTools
        /\ CarriesMap(request')
        /\ ~(Signature(NameOf(request')).required \subseteq DOMAIN MapOf(request')))
        => (/\ Answered(responses', 500)
            /\ DOMAIN responses'[1].body = {"error"}
            /\ invoked' = <<>>
            /\ ~BodyRan(log')
            /\ outbound' = <<>>
            /\ VERCEL_TOKEN' = VERCEL_TOKEN)]_vars

C17_Witness ==
    /\ IsToolPost(request)
    /\ NameOf(request) = "list_deployment_aliases"
    /\ request.cl = "exact"
    /\ request.body.kind = "object"
    /\ request.body.params = EmptyMap
    /\ VERCEL_TOKEN = StrOfLen(0)
    /\ Answered(responses, 500)
    /\ outbound = <<>>

(* C18 as stated: the names POST /tools/{name} dispatches to a callable are *)
(* exactly the names GET /tools lists: a listed name is never answered 404, *)
(* and for a name that is not listed nothing is called and the answer is    *)
(* 404.                                                                     *)
C18_DispatchIsList ==
    (IsToolPost(request) /\ CarriesMap(request))
        => LET listed == Range(get_registered_tools(fastmcpAttr))
           IN  IF NameOf(request) \in listed
               THEN ~Answered(responses, 404)
               ELSE /\ Answered(responses, 404)
                    /\ invoked = <<>>
                    /\ outbound = <<>>

(* C19 as stated: a request makes an outbound call only while the           *)
(* credential is non-empty, and no outbound call carries an empty bearer    *)
(* token.                                                                   *)
C19_NoCallWithoutCredential ==
    [][outbound' # <<>>
        => (/\ Truthy(VERCEL_TOKEN)
            /\ \A i \in 1..Len(outbound') : outbound'[i].auth.token # <<>>)]_vars

(* C20 as stated: the credential changes only in a request POST             *)
(* /tools/set_vercel_token that is answered 200 with status "success"; any  *)
(* other request, and any request answered 400, 404 or 500, leaves it as it *)
(* was; and no request changes the set of registered tools.                 *)
C20_OnlySuccessfulSetChanges ==
    [][/\ VERCEL_TOKEN' # VERCEL_TOKEN
          => (/\ IsToolPost(request')
              /\ NameOf(request') = "set_vercel_token"
              /\ AnsweredStatus(responses', 200, "success"))
       /\ get_registered_tools(fastmcpAttr') = get_registered_tools(fastmcpAttr)]_vars

(* C21 as stated: once POST /tools/set_vercel_token has been answered 200   *)
(* with status "success", the server is configured: the next                *)
(* check_server_status reports vercel_token_configured true, and the next   *)
(* credential-requiring tool call is not answered "token not configured"    *)
(* but makes its outbound call; for every token the operation accepts, the  *)
(* empty string included.                                                   *)
C21_ConfiguredAfterSet ==
    [][(IsSetToken(request) /\ AnsweredStatus(responses, 200, "success"))
        => (/\ (invoked' # <<>> /\ invoked'[1].name = "check_server_status")
                  => (/\ Answered(responses', 200)
                      /\ responses'[1].body.vercel_token_configured)
            /\ BoundCall(request', CredentialTools)
                  => Len(outbound') = 1)]_vars

====
